---- MODULE Spec2Model ----
(***************************************************************************)
(* Pose (estimator/pose.cpp): a rigid transform kept as a quaternion q_,   *)
(* a translation t_, a cached 4x4 matrix T_ and a time offset td_, with    *)
(* its constructors, poseTransform, inverse, operator* and computeMeanPose.*)
(*                                                                         *)
(* Scalars are doubles in the source.  Here a scalar is an exact extended  *)
(* rational <<n, d>>: d > 0 is the fraction n/d in lowest terms, <<0,0>>   *)
(* is NaN and <<1,0>>, <<-1,0>> are the infinities, so that 0/0 and x/0    *)
(* come out as IEEE-754 gives them.  Inputs are chosen so that every       *)
(* square root the code takes is rational; rounding is not modelled.       *)
(***************************************************************************)
EXTENDS Integers, Sequences, FiniteSets, TLC

VARIABLES pose1, pose2, call

vars == <<pose1, pose2, call>>

----------------------------------------------------------------------------
(* double arithmetic *)

Abs(n) == IF n < 0 THEN -n ELSE n

Sgn(n) == IF n > 0 THEN 1 ELSE IF n < 0 THEN -1 ELSE 0

RECURSIVE GCD(_, _)
GCD(a, b) == IF b = 0 THEN a ELSE GCD(b, a % b)

\* the double n/d; d = 0 gives NaN (n = 0) or a signed infinity
Reduce(n, d) ==
    IF d = 0 THEN <<Sgn(n), 0>>
    ELSE LET g == GCD(Abs(n), Abs(d))
             s == Sgn(d)
         IN  <<(s * n) \div g, (s * d) \div g>>

R(n) == <<n, 1>>

NaN == <<0, 0>>

IsNaN(a) == a = NaN

IsInf(a) == a[2] = 0 /\ a[1] # 0

IsFinite(a) == a[2] # 0

RAdd(a, b) ==
    IF IsInf(a) /\ IsInf(b) THEN (IF a = b THEN a ELSE NaN)
    ELSE Reduce(a[1] * b[2] + b[1] * a[2], a[2] * b[2])

RNeg(a) == <<-a[1], a[2]>>

RSub(a, b) == RAdd(a, RNeg(b))

RMul(a, b) == Reduce(a[1] * b[1], a[2] * b[2])

RDiv(a, b) == Reduce(a[1] * b[2], a[2] * b[1])

\* a > b; false whenever an operand is NaN
RGt(a, b) ==
    IF IsNaN(a) \/ IsNaN(b) \/ a = b THEN FALSE
    ELSE IF IsInf(a) THEN a[1] > 0
    ELSE IF IsInf(b) THEN b[1] < 0
    ELSE a[1] * b[2] > b[1] * a[2]

IsSquare(n) == n >= 0 /\ \E r \in 0..n : r * r = n

ISqrt(n) == CHOOSE r \in 0..n : r * r = n

\* the doubles whose square root is a rational
HasSqrt(a) == ~IsFinite(a) \/ a[1] < 0 \/ (IsSquare(a[1]) /\ IsSquare(a[2]))

RSqrt(a) ==
    IF IsNaN(a) \/ a[1] < 0 THEN NaN
    ELSE IF IsInf(a) THEN a
    ELSE <<ISqrt(a[1]), ISqrt(a[2])>>

----------------------------------------------------------------------------
(* Eigen::Vector3d, Eigen::Quaterniond, Eigen::Matrix3d, Eigen::Matrix4d *)

Zero3 == <<R(0), R(0), R(0)>>

VAdd(u, v) == <<RAdd(u[1], v[1]), RAdd(u[2], v[2]), RAdd(u[3], v[3])>>

VNeg(v) == <<RNeg(v[1]), RNeg(v[2]), RNeg(v[3])>>

VScale(s, v) == <<RMul(s, v[1]), RMul(s, v[2]), RMul(s, v[3])>>

VDivS(v, s) == <<RDiv(v[1], s), RDiv(v[2], s), RDiv(v[3], s)>>

Cross(u, v) ==
    <<RSub(RMul(u[2], v[3]), RMul(u[3], v[2])),
      RSub(RMul(u[3], v[1]), RMul(u[1], v[3])),
      RSub(RMul(u[1], v[2]), RMul(u[2], v[1]))>>

\* Eigen::Quaterniond(w, x, y, z)
Quaterniond(w, x, y, z) == [w |-> w, x |-> x, y |-> y, z |-> z]

QIdentity == Quaterniond(R(1), R(0), R(0), R(0))

QVec(q) == <<q.x, q.y, q.z>>

squaredNorm(q) ==
    RAdd(RAdd(RMul(q.w, q.w), RMul(q.x, q.x)), RAdd(RMul(q.y, q.y), RMul(q.z, q.z)))

\* q.normalize(): divides by the norm when the squared norm is > 0
normalize(q) ==
    LET z == squaredNorm(q)
        n == RSqrt(z)
    IN  IF RGt(z, R(0))
        THEN Quaterniond(RDiv(q.w, n), RDiv(q.x, n), RDiv(q.y, n), RDiv(q.z, n))
        ELSE q

\* a * b on quaternions (Hamilton product)
QMul(a, b) ==
    Quaterniond(
        RSub(RSub(RSub(RMul(a.w, b.w), RMul(a.x, b.x)), RMul(a.y, b.y)), RMul(a.z, b.z)),
        RSub(RAdd(RAdd(RMul(a.w, b.x), RMul(a.x, b.w)), RMul(a.y, b.z)), RMul(a.z, b.y)),
        RSub(RAdd(RAdd(RMul(a.w, b.y), RMul(a.y, b.w)), RMul(a.z, b.x)), RMul(a.x, b.z)),
        RSub(RAdd(RAdd(RMul(a.w, b.z), RMul(a.z, b.w)), RMul(a.x, b.y)), RMul(a.y, b.x)))

\* q * v on a quaternion and a vector: v + w*uv + vec x uv, uv = 2 (vec x v)
QRotate(q, v) ==
    LET c  == Cross(QVec(q), v)
        uv == VAdd(c, c)
    IN  VAdd(VAdd(v, VScale(q.w, uv)), Cross(QVec(q), uv))

\* q.inverse(): the conjugate over the squared norm; zero when that is not > 0
QInverse(q) ==
    LET n2 == squaredNorm(q)
    IN  IF RGt(n2, R(0))
        THEN Quaterniond(RDiv(q.w, n2), RDiv(RNeg(q.x), n2),
                         RDiv(RNeg(q.y), n2), RDiv(RNeg(q.z), n2))
        ELSE Quaterniond(R(0), R(0), R(0), R(0))

\* q.toRotationMatrix()
toRotationMatrix(q) ==
    LET tx  == RMul(R(2), q.x)
        ty  == RMul(R(2), q.y)
        tz  == RMul(R(2), q.z)
        twx == RMul(tx, q.w)
        twy == RMul(ty, q.w)
        twz == RMul(tz, q.w)
        txx == RMul(tx, q.x)
        txy == RMul(ty, q.x)
        txz == RMul(tz, q.x)
        tyy == RMul(ty, q.y)
        tyz == RMul(tz, q.y)
        tzz == RMul(tz, q.z)
    IN  << <<RSub(R(1), RAdd(tyy, tzz)), RSub(txy, twz), RAdd(txz, twy)>>,
           <<RAdd(txy, twz), RSub(R(1), RAdd(txx, tzz)), RSub(tyz, twx)>>,
           <<RSub(txz, twy), RAdd(tyz, twx), RSub(R(1), RAdd(txx, tyy))>> >>

Trace(m) == RAdd(RAdd(m[1][1], m[2][2]), m[3][3])

\* the index (1..3) of the largest diagonal entry, as Eigen picks it
MaxDiag(m) ==
    LET i == IF RGt(m[2][2], m[1][1]) THEN 2 ELSE 1
    IN  IF RGt(m[3][3], m[i][i]) THEN 3 ELSE i

\* the argument of the square root Eigen::Quaterniond(Matrix3d) takes
QuatRadicand(m) ==
    IF RGt(Trace(m), R(0)) THEN RAdd(Trace(m), R(1))
    ELSE LET i == MaxDiag(m)
             j == (i % 3) + 1
             k == (j % 3) + 1
         IN  RAdd(RSub(RSub(m[i][i], m[j][j]), m[k][k]), R(1))

\* Eigen::Quaterniond(Matrix3d): no normalization
QuaterniondFromMatrix(m) ==
    LET half == Reduce(1, 2)
        s    == RSqrt(QuatRadicand(m))
        t    == RDiv(half, s)
    IN  IF RGt(Trace(m), R(0))
        THEN Quaterniond(RMul(half, s),
                         RMul(RSub(m[3][2], m[2][3]), t),
                         RMul(RSub(m[1][3], m[3][1]), t),
                         RMul(RSub(m[2][1], m[1][2]), t))
        ELSE LET i == MaxDiag(m)
                 j == (i % 3) + 1
                 k == (j % 3) + 1
                 v == [n \in 1..3 |->
                          IF n = i THEN RMul(half, s)
                          ELSE IF n = j THEN RMul(RAdd(m[j][i], m[i][j]), t)
                          ELSE RMul(RAdd(m[k][i], m[i][k]), t)]
             IN  Quaterniond(RMul(RSub(m[k][j], m[j][k]), t), v[1], v[2], v[3])

Identity4 ==
    << <<R(1), R(0), R(0), R(0)>>, <<R(0), R(1), R(0), R(0)>>,
       <<R(0), R(0), R(1), R(0)>>, <<R(0), R(0), R(0), R(1)>> >>

\* T.topLeftCorner<3, 3>()
topLeftCorner(T) == [i \in 1..3 |-> [j \in 1..3 |-> T[i][j]]]

\* T.topRightCorner<3, 1>()
topRightCorner(T) == <<T[1][4], T[2][4], T[3][4]>>

\* T.topLeftCorner<3, 3>() = m
SetTopLeft(T, m) ==
    [i \in 1..4 |-> [j \in 1..4 |-> IF i <= 3 /\ j <= 3 THEN m[i][j] ELSE T[i][j]]]

\* T.topRightCorner<3, 1>() = v
SetTopRight(T, v) ==
    [i \in 1..4 |-> [j \in 1..4 |-> IF i <= 3 /\ j = 4 THEN v[i] ELSE T[i][j]]]

----------------------------------------------------------------------------
(* class Pose: q_, t_, T_, td_ *)

\* the value of the defaulted parameter td of the constructors
DefaultTd == R(0)

\* T_.setIdentity(); T_.topLeftCorner<3, 3>() = m; T_.topRightCorner<3, 1>() = t
Homogeneous(m, t) == SetTopRight(SetTopLeft(Identity4, m), t)

\* Pose::Pose()
PoseDefault ==
    [q_ |-> QIdentity, t_ |-> Zero3, T_ |-> Identity4, td_ |-> R(0)]

\* Pose::Pose(const Pose &pose)
PoseCopy(pose) ==
    [q_ |-> pose.q_, t_ |-> pose.t_, T_ |-> pose.T_, td_ |-> pose.td_]

\* Pose::Pose(const Eigen::Quaterniond &q, const Eigen::Vector3d &t, const double &td)
PoseQt(q, t, td) ==
    LET qn == normalize(q)
    IN  [q_ |-> qn, t_ |-> t, T_ |-> Homogeneous(toRotationMatrix(qn), t), td_ |-> td]

\* Pose::Pose(const Eigen::Matrix3d &R, const Eigen::Vector3d &t, const double &td)
PoseRt(Rm, t, td) ==
    [q_ |-> QuaterniondFromMatrix(Rm), t_ |-> t, T_ |-> Homogeneous(Rm, t), td_ |-> td]

\* Pose::Pose(const Eigen::Matrix4d &T, const double &td)
PoseT(T, td) ==
    [q_ |-> normalize(QuaterniondFromMatrix(topLeftCorner(T))),
     t_ |-> topRightCorner(T), T_ |-> T, td_ |-> td]

\* Pose::Pose(const nav_msgs::Odometry &odom).  td_ is not assigned: it keeps
\* whatever the storage held, here the argument indeterminate.
PoseOdom(odom, indeterminate) ==
    LET q == Quaterniond(odom.orientation.w, odom.orientation.x,
                         odom.orientation.y, odom.orientation.z)
        t == <<odom.position.x, odom.position.y, odom.position.z>>
    IN  [q_ |-> q, t_ |-> t, T_ |-> Homogeneous(toRotationMatrix(q), t),
         td_ |-> indeterminate]

\* poseTransform with the outer pose's time offset passed on
poseTransform_inheritTd(a, b) ==
    PoseQt(QMul(a.q_, b.q_), VAdd(QRotate(a.q_, b.t_), a.t_), a.td_)

\* Pose::poseTransform(const Pose &pose1, const Pose &pose2)
poseTransform(a, b) ==
    PoseQt(QMul(a.q_, b.q_), VAdd(QRotate(a.q_, b.t_), a.t_), DefaultTd)

\* Pose::inverse()
inverse(self) ==
    PoseQt(QInverse(self.q_), VNeg(QRotate(QInverse(self.q_), self.t_)), DefaultTd)

\* operator* with the argument as the outer transform
operatorMul_swapped(self, pose) ==
    PoseQt(QMul(pose.q_, self.q_), VAdd(QRotate(pose.q_, self.t_), pose.t_), DefaultTd)

\* Pose::operator*(const Pose &pose)
operatorMul(self, pose) ==
    PoseQt(QMul(self.q_, pose.q_), VAdd(QRotate(self.q_, pose.t_), self.t_), DefaultTd)

----------------------------------------------------------------------------
(* computeMeanPose(pose_array, pose_mean); an entry of pose_array is       *)
(* <<weight, pose>>, as std::pair's first and second                       *)

\* weight_total after the first loop
RECURSIVE WeightTotal(_)
WeightTotal(arr) ==
    IF arr = << >> THEN R(0)
    ELSE RAdd(WeightTotal(SubSeq(arr, 1, Len(arr) - 1)), arr[Len(arr)][1])

\* t_mean after the second loop, before the division
RECURSIVE WeightedT(_)
WeightedT(arr) ==
    IF arr = << >> THEN Zero3
    ELSE VAdd(WeightedT(SubSeq(arr, 1, Len(arr) - 1)),
              VScale(arr[Len(arr)][1], arr[Len(arr)][2].t_))

\* x, y, z, w after the third loop, before the divisions
RECURSIVE WeightedQ(_)
WeightedQ(arr) ==
    IF arr = << >> THEN Quaterniond(R(0), R(0), R(0), R(0))
    ELSE LET s == WeightedQ(SubSeq(arr, 1, Len(arr) - 1))
             e == arr[Len(arr)]
         IN  Quaterniond(RAdd(s.w, RMul(e[1], e[2].q_.w)),
                         RAdd(s.x, RMul(e[1], e[2].q_.x)),
                         RAdd(s.y, RMul(e[1], e[2].q_.y)),
                         RAdd(s.z, RMul(e[1], e[2].q_.z)))

\* q_mean(w, x, y, z)
MeanQ(arr) ==
    LET s == WeightedQ(arr)
        weight_total == WeightTotal(arr)
    IN  Quaterniond(RDiv(s.w, weight_total), RDiv(s.x, weight_total),
                    RDiv(s.y, weight_total), RDiv(s.z, weight_total))

\* t_mean
MeanT(arr) == VDivS(WeightedT(arr), WeightTotal(arr))

\* computeMeanPose dividing the weights in place
computeMeanPose_inPlace(arr) ==
    [pose_array |-> [i \in 1..Len(arr) |-> <<RDiv(arr[i][1], WeightTotal(arr)), arr[i][2]>>],
     pose_mean |-> PoseQt(MeanQ(arr), MeanT(arr), DefaultTd)]

\* the two parameters after the call: pose_array is read through a const
\* reference, pose_mean is assigned
computeMeanPose(arr) ==
    [pose_array |-> arr, pose_mean |-> PoseQt(MeanQ(arr), MeanT(arr), DefaultTd)]

----------------------------------------------------------------------------
(* the arguments the callers pass *)

MaxLen == 2

Qi(w, x, y, z) == Quaterniond(R(w), R(x), R(y), R(z))

V(x, y, z) == <<R(x), R(y), R(z)>>

Diag3(a, b, c) ==
    << <<R(a), R(0), R(0)>>, <<R(0), R(b), R(0)>>, <<R(0), R(0), R(c)>> >>

\* [m | t ; 0 0 0 last]
Mat4(m, t, last) ==
    [i \in 1..4 |-> [j \in 1..4 |->
        IF i <= 3 /\ j <= 3 THEN m[i][j]
        ELSE IF i <= 3 THEN t[i]
        ELSE IF j <= 3 THEN R(0) ELSE R(last)]]

\* unit, and of norm 2: half a turn about x, a third of a turn about (1,1,1)
Quats == {Qi(1, 0, 0, 0), Qi(0, 2, 0, 0), Qi(1, 1, 1, 1)}

Vecs == {V(0, 0, 0), V(2, 0, 0), V(0, 1, 0)}

Tds == {R(0), R(1)}

\* a rotation, a rotation, and a matrix that is not orthonormal
Mats3 == {Diag3(1, 1, 1), Diag3(1, -1, -1), Diag3(3, 3, 2)}

Mats4 ==
    {Mat4(Diag3(1, 1, 1), V(2, 0, 0), 1),
     Mat4(Diag3(3, 3, 2), V(0, 0, 0), 1),
     Mat4(Diag3(1, -1, -1), V(0, 1, 0), 2)}

\* odom.pose.pose: a unit orientation, and one of norm 2 (half a turn about y)
Odoms ==
    {[orientation |-> o, position |-> [x |-> t[1], y |-> t[2], z |-> t[3]]] :
        o \in {Qi(1, 0, 0, 0), Qi(0, 0, 2, 0)}, t \in Vecs}

Weights == {R(0), R(1)}

Slots == {1, 2}

\* the collections a caller fills from its two poses
Arrays(a, b) ==
    UNION {[1..k -> Weights \X {a, b}] : k \in 0..MaxLen}

\* the square root normalize() takes of the mean quaternion is a rational
Exact(arr) == HasSqrt(squaredNorm(MeanQ(arr)))

---------------------------------------------------------------------------------------------------------------------------------------------------
(* The state: two Pose objects of the caller, and the call it has made and *)
(* not yet looked at.  The code is single-threaded: the caller makes one   *)
(* call at a time.                                                         *)

\* what each constructor can build from the arguments above
QtResults == {PoseQt(q, t, td) : q \in Quats, t \in Vecs, td \in Tds}

RtResults == {PoseRt(Rm, t, td) : Rm \in Mats3, t \in Vecs, td \in Tds}

TResults == {PoseT(T, td) : T \in Mats4, td \in Tds}

OdomResults == {PoseOdom(odom, indeterminate) : odom \in Odoms, indeterminate \in Tds}

Idle == call.op = "none"

Init ==
    /\ pose1 = PoseDefault
    /\ pose2 = PoseDefault
    /\ call = [op |-> "none"]

Other(slot) == IF slot = 1 THEN pose2 ELSE pose1

Built(slot) == IF slot = 1 THEN pose1 ELSE pose2

\* object n after the object `slot` names is constructed as p
After(n, slot, p) == IF slot = n THEN p ELSE Built(n)

CtorDefault ==
    \E s \in Slots :
        /\ Idle
        /\ pose1' = After(1, s, PoseDefault)
        /\ pose2' = After(2, s, PoseDefault)
        /\ call' = [op |-> "Pose()", slot |-> s]

CtorCopy ==
    \E s \in Slots :
        /\ Idle
        /\ pose1' = After(1, s, PoseCopy(Other(s)))
        /\ pose2' = After(2, s, PoseCopy(Other(s)))
        /\ call' = [op |-> "Pose(pose)", slot |-> s]

CtorQt ==
    \E s \in Slots, p \in QtResults :
        /\ Idle
        /\ pose1' = After(1, s, p)
        /\ pose2' = After(2, s, p)
        /\ call' = [op |-> "Pose(q,t,td)", slot |-> s]

CtorRt ==
    \E s \in Slots, p \in RtResults :
        /\ Idle
        /\ pose1' = After(1, s, p)
        /\ pose2' = After(2, s, p)
        /\ call' = [op |-> "Pose(R,t,td)", slot |-> s]

CtorT ==
    \E s \in Slots, p \in TResults :
        /\ Idle
        /\ pose1' = After(1, s, p)
        /\ pose2' = After(2, s, p)
        /\ call' = [op |-> "Pose(T,td)", slot |-> s]

CtorOdom ==
    \E s \in Slots, p \in OdomResults :
        /\ Idle
        /\ pose1' = After(1, s, p)
        /\ pose2' = After(2, s, p)
        /\ call' = [op |-> "Pose(odom)", slot |-> s]

PoseTransform ==
    /\ Idle
    /\ call' = [op |-> "poseTransform", pose1 |-> pose1, pose2 |-> pose2,
                ret |-> poseTransform(pose1, pose2)]
    /\ UNCHANGED <<pose1, pose2>>

Inverse ==
    /\ Idle
    /\ call' = [op |-> "inverse", self |-> pose1, ret |-> inverse(pose1)]
    /\ UNCHANGED <<pose1, pose2>>

OperatorMul ==
    /\ Idle
    /\ call' = [op |-> "operator*", self |-> pose1, pose |-> pose2,
                ret |-> operatorMul(pose1, pose2)]
    /\ UNCHANGED <<pose1, pose2>>

ComputeMeanPose ==
    /\ Idle
    /\ \E arr \in Arrays(pose1, pose2) :
        /\ Exact(arr)
        /\ LET out == computeMeanPose(arr)
           IN  call' = [op |-> "computeMeanPose", outcome |-> "returned",
                        pose_array_in |-> arr, pose_array |-> out.pose_array,
                        pose_mean |-> out.pose_mean]
    /\ UNCHANGED <<pose1, pose2>>

\* the caller is done with the call
Return ==
    /\ ~Idle
    /\ call' = [op |-> "none"]
    /\ UNCHANGED <<pose1, pose2>>

Next ==
    \/ CtorDefault
    \/ CtorCopy
    \/ CtorQt
    \/ CtorRt
    \/ CtorT
    \/ CtorOdom
    \/ PoseTransform
    \/ Inverse
    \/ OperatorMul
    \/ ComputeMeanPose
    \/ Return

Spec == Init /\ [][Next]_vars

----------------------------------------------------------------------------
(* the claims *)

Poses == {pose1, pose2}

HasNaN(pose) ==
    \/ \E c \in {pose.q_.w, pose.q_.x, pose.q_.y, pose.q_.z} : IsNaN(c)
    \/ \E i \in 1..3 : IsNaN(pose.t_[i])
    \/ \E i \in 1..4, j \in 1..4 : IsNaN(pose.T_[i][j])

\* C1: whatever constructor built a Pose, and whatever the norm of the input
\* rotation, the stored quaternion q_ has norm 1.
C1_RotationUnitNorm == \A p \in Poses : squaredNorm(p.q_) = R(1)

\* C2: after every constructor T_ is [matrix of q_ | t_ ; 0 0 0 1].
C2_TransformCacheConsistent ==
    \A p \in Poses : p.T_ = Homogeneous(toRotationMatrix(p.q_), p.t_)

\* C3: computeMeanPose on a collection of total weight zero ends in an
\* InvalidArgument failure or writes the identity pose; pose_mean never has a
\* NaN component.
C3_ZeroWeightDefined ==
    (call.op = "computeMeanPose" /\ WeightTotal(call.pose_array_in) = R(0)) =>
        /\ \/ call.outcome = "InvalidArgument"
           \/ /\ call.pose_mean.q_ = QIdentity
              /\ call.pose_mean.t_ = Zero3
              /\ call.pose_mean.T_ = Identity4
        /\ ~HasNaN(call.pose_mean)

\* C4: for every Pose p, poseTransform(p, p.inverse()) has the identity
\* rotation and zero translation.
C4_InverseLaw ==
    call.op = "inverse" =>
        LET c == poseTransform(call.self, call.ret)
        IN  c.q_ = QIdentity /\ c.t_ = Zero3

\* the inverse law on the poses whose q_ has norm 1
InverseLawOnUnitRotations ==
    (call.op = "inverse" /\ squaredNorm(call.self.q_) = R(1)) =>
        LET c == poseTransform(call.self, call.ret)
        IN  c.q_ = QIdentity /\ c.t_ = Zero3

\* C5: a * b is the same pose (q_, t_, T_, td_) as poseTransform(a, b): its
\* rotation is a.q_ * b.q_ as the constructor stores it, its translation is
\* a.q_ applied to b.t_ plus a.t_, a the outer and b the inner transform.
C5_OperatorMulIsPoseTransform ==
    /\ call.op = "operator*" =>
        /\ call.ret = poseTransform(call.self, call.pose)
        /\ call.ret.q_ = normalize(QMul(call.self.q_, call.pose.q_))
        /\ call.ret.t_ = VAdd(QRotate(call.self.q_, call.pose.t_), call.self.t_)
    /\ call.op = "poseTransform" =>
        call.ret = operatorMul(call.pose1, call.pose2)

\* a * b returned for two poses that do not commute and carry time offsets
C5_Witness ==
    /\ call.op = "operator*"
    /\ call.ret # poseTransform(call.pose, call.self)
    /\ call.self.t_ # Zero3
    /\ call.pose.t_ # Zero3
    /\ call.self.td_ # call.pose.td_

\* C6: for two entries of weight 1 whose poses have the same rotation r and
\* translations t1 and t2, computeMeanPose writes translation (t1+t2)/2 and
\* rotation r.
C6_EqualWeightMean ==
    LET arr == call.pose_array_in
    IN  (/\ call.op = "computeMeanPose"
         /\ Len(arr) = 2
         /\ arr[1][1] = R(1)
         /\ arr[2][1] = R(1)
         /\ arr[1][2].q_ = arr[2][2].q_) =>
            /\ call.pose_mean.t_ = VDivS(VAdd(arr[1][2].t_, arr[2][2].t_), R(2))
            /\ call.pose_mean.q_ = arr[1][2].q_

\* the equal-weight mean on poses whose common q_ has norm 1; the inputs
\* (1, identity, (0,0,0)) and (1, identity, (2,0,0)) give (1,0,0) and identity
EqualWeightMeanOnUnitRotations ==
    LET arr == call.pose_array_in
    IN  (/\ call.op = "computeMeanPose"
         /\ Len(arr) = 2
         /\ arr[1][1] = R(1)
         /\ arr[2][1] = R(1)
         /\ arr[1][2].q_ = arr[2][2].q_
         /\ squaredNorm(arr[1][2].q_) = R(1)) =>
            /\ call.pose_mean.t_ = VDivS(VAdd(arr[1][2].t_, arr[2][2].t_), R(2))
            /\ call.pose_mean.q_ = arr[1][2].q_
            /\ (arr[1][2].q_ = QIdentity /\ arr[1][2].t_ = Zero3 /\ arr[2][2].t_ = V(2, 0, 0)) =>
                (call.pose_mean.t_ = V(1, 0, 0) /\ call.pose_mean.q_ = QIdentity)

\* C7: a Pose built from an odometry record has time offset 0.
C7_OdomTdZero == call.op = "Pose(odom)" => Built(call.slot).td_ = R(0)

\* C8: computeMeanPose leaves pose_array as it was: the same length, and in
\* every entry the same weight and the same q_, t_, T_ and td_.
C8_InputUnchanged ==
    call.op = "computeMeanPose" =>
        /\ Len(call.pose_array) = Len(call.pose_array_in)
        /\ \A i \in 1..Len(call.pose_array_in) :
            /\ call.pose_array[i][1] = call.pose_array_in[i][1]
            /\ call.pose_array[i][2].q_ = call.pose_array_in[i][2].q_
            /\ call.pose_array[i][2].t_ = call.pose_array_in[i][2].t_
            /\ call.pose_array[i][2].T_ = call.pose_array_in[i][2].T_
            /\ call.pose_array[i][2].td_ = call.pose_array_in[i][2].td_

\* the mean of two different poses of unequal weight has been written
C8_Witness ==
    /\ call.op = "computeMeanPose"
    /\ Len(call.pose_array_in) = 2
    /\ call.pose_array_in[1][2] # call.pose_array_in[2][2]
    /\ call.pose_array_in[1][1] # call.pose_array_in[2][1]
    /\ ~HasNaN(call.pose_mean)

\* C9: poseTransform(identity, p) and poseTransform(p, identity) have the
\* rotation and the translation of p, identity the default-constructed Pose.
C9_IdentityComposition ==
    call.op = "poseTransform" =>
        /\ call.pose1 = PoseDefault =>
            call.ret.q_ = call.pose2.q_ /\ call.ret.t_ = call.pose2.t_
        /\ call.pose2 = PoseDefault =>
            call.ret.q_ = call.pose1.q_ /\ call.ret.t_ = call.pose1.t_

\* identity composition on the poses whose q_ has norm 1
IdentityCompositionOnUnitRotations ==
    call.op = "poseTransform" =>
        /\ (call.pose1 = PoseDefault /\ squaredNorm(call.pose2.q_) = R(1)) =>
            call.ret.q_ = call.pose2.q_ /\ call.ret.t_ = call.pose2.t_
        /\ (call.pose2 = PoseDefault /\ squaredNorm(call.pose1.q_) = R(1)) =>
            call.ret.q_ = call.pose1.q_ /\ call.ret.t_ = call.pose1.t_

\* C10: the pose poseTransform, operator* and inverse() return has time
\* offset 0 whatever the operands' offsets, and the operands are as they were.
C10_ResultTdZero ==
    /\ call.op \in {"poseTransform", "operator*", "inverse"} => call.ret.td_ = R(0)
    /\ call.op = "poseTransform" => pose1 = call.pose1 /\ pose2 = call.pose2
    /\ call.op = "operator*" => pose1 = call.self /\ pose2 = call.pose
    /\ call.op = "inverse" => pose1 = call.self

\* poseTransform returned for two operands that both carry time offset 1
C10_Witness ==
    /\ call.op = "poseTransform"
    /\ call.pose1.td_ = R(1)
    /\ call.pose2.td_ = R(1)
    /\ call.pose1.t_ # Zero3

====
